---------------------------- MODULE Spec2Model ----------------------------
(***************************************************************************)
(* website-monitor (src/src/main.rs): one Monitor Task per configured site *)
(* polls its URL on a fixed interval, compares the result with the site's  *)
(* state and writes lines through a Logger shared by all tasks.  The       *)
(* Logger prints every line and, when a log file is open, appends it to    *)
(* the file, rotating <path> -> <path>.1 -> ... when the line counter has  *)
(* reached max_lines.                                                      *)
(*                                                                         *)
(* The tasks run on tokio's multi-threaded runtime, so the steps of two    *)
(* log calls interleave wherever the code holds no mutex.  A log call is   *)
(* therefore modelled step by step (one action per lock operation and per  *)
(* file-system call); the task-local computation of monitor_site, which    *)
(* touches nothing shared, is folded into the step that completes the      *)
(* check.                                                                  *)
(***************************************************************************)
EXTENDS Integers, Sequences, FiniteSets, TLC

(***************************************************************************)
(* Bounds of the model.                                                    *)
(***************************************************************************)
\* Logger.max_lines is 20000 in the source (main.rs:77); the model runs the
\* same code with a small threshold.
max_lines == 2
\* File operations that fail in one run, at most.
MaxFaults == 1
\* Checks of each site in a run of several sites, after which the process is
\* stopped (a run of one site goes on for ever).
MaxChecks == 1

\* Logger.max_files
max_files == 4

\* The Monitor Tasks: two are enough for every interleaving of a pair of log
\* calls.
Tasks == {1, 2}
\* Suffixes of the file names <path>, <path>.1, ...; 0 is <path> itself.  One
\* more than the code is meant to use, so that a name beyond
\* <path>.{max_files-1} can be observed.
Names == 0..max_files
\* Files (inodes): one per name, the one behind the Logger's handle and one
\* per rotation that has opened a file it has not stored yet.
Inodes == 1..(max_files + 2 + Cardinality(Tasks))

None == "None"
NoFile == 0
\* A directory without a file.
NoDir == [k \in Names |-> NoFile]
Free == -1

Min(a, b) == IF a < b THEN a ELSE b

(***************************************************************************)
(* The environment: what an HTTP GET of a site can give.                   *)
(***************************************************************************)
Bodies == {"A", "B"}
OkResponses == [kind : {"ok"}, status : {200, 500}, body : Bodies]
ConnErr == [kind |-> "conn_err", status |-> 0, body |-> ""]
BodyErr == [kind |-> "body_err", status |-> 200, body |-> ""]
Responses == OkResponses \cup {ConnErr, BodyErr}
\* A server that answers with anything, one that answers 200 "A" or not at
\* all, and one that is unreachable.
Rich == Responses
Poor == {[kind |-> "ok", status |-> 200, body |-> "A"], ConnErr}
Dead == {ConnErr}
\* A server that accepts the request and never answers (reqwest::get has no
\* timeout).
Hung == {}

(***************************************************************************)
(* check_site and the Content Fingerprinter.                               *)
(***************************************************************************)
\* format!("{:x}", md5::compute(body))
md5(body) ==
    CASE body = "A" -> "7fc56270e7a70fa81a5935b72eacbe29"
      [] body = "B" -> "9d5ed678fe57bcca610140957afab571"
      [] OTHER -> "d41d8cd98f00b204e9800998ecf8427e"

\* StatusCode::is_success
is_success(status) == status >= 200 /\ status < 300

NoResult == [ok |-> FALSE, is_up |-> FALSE, hash |-> None, content_size |-> -1]
ErrResult == [ok |-> FALSE, is_up |-> FALSE, hash |-> None, content_size |-> 0]

\* Ok((is_up, hash, content_size, load_time)) or Err(message); the latency
\* and the text of the message are left out.
check_site(resp) ==
    IF resp.kind = "ok"
    THEN [ok |-> TRUE, is_up |-> is_success(resp.status),
          hash |-> md5(resp.body), content_size |-> Len(resp.body)]
    ELSE ErrResult

(***************************************************************************)
(* monitor_site: the lines of one check and the state it leaves.           *)
(***************************************************************************)
\* A variant of InitialState: a site is taken to be down until it has answered.
InitialStateDown == [last_hash |-> None, last_size |-> -1, is_up |-> FALSE]

\* SiteState { last_hash: None, last_size: None, is_up: true }
InitialState == [last_hash |-> None, last_size |-> -1, is_up |-> TRUE]

MainLine(r) == IF r.is_up THEN "status: up" ELSE "status: down"

\* A variant of StatusChanged: every check that finds the site down reports a
\* change.
StatusChangedOnEveryDown(st, r) ==
    IF st.is_up # r.is_up \/ ~r.is_up
    THEN IF r.is_up THEN <<"  status changed: down -> up">>
                    ELSE <<"  status changed: up -> down">>
    ELSE <<>>

StatusChanged(st, r) ==
    IF st.is_up # r.is_up
    THEN IF r.is_up THEN <<"  status changed: down -> up">>
                    ELSE <<"  status changed: up -> down">>
    ELSE <<>>

\* A variant of ContentChanged: the missing baseline counts as a different
\* fingerprint.
ContentChangedNoBaseline(st, r) ==
    IF st.last_hash # r.hash
    THEN <<"  content changed">>
    ELSE <<>>

ContentChanged(st, r) ==
    IF st.last_hash # None /\ st.last_hash # r.hash
    THEN <<"  content changed">>
    ELSE <<>>

\* A variant of CheckLines: the status line is logged after the events.
CheckLinesStatusLast(st, r) ==
    IF r.ok
    THEN StatusChanged(st, r) \o ContentChanged(st, r) \o <<MainLine(r)>>
    ELSE <<"  error", "status: error">>

\* A variant of CheckLines: a failed check of a site that was up reports the
\* change as a successful one does.
CheckLinesFailureReported(st, r) ==
    IF r.ok
    THEN <<MainLine(r)>> \o StatusChanged(st, r) \o ContentChanged(st, r)
    ELSE <<"status: error", "  error">>
         \o (IF st.is_up THEN <<"  status changed: up -> down">> ELSE <<>>)

CheckLines(st, r) ==
    IF r.ok
    THEN <<MainLine(r)>> \o StatusChanged(st, r) \o ContentChanged(st, r)
    ELSE <<"status: error", "  error">>

\* A variant of CheckState: a failed check leaves the state as it is.
CheckStateKeepsUp(st, r) ==
    IF r.ok
    THEN [last_hash |-> r.hash, last_size |-> r.content_size, is_up |-> r.is_up]
    ELSE st

\* A variant of CheckState: a failed check forgets the baseline.
CheckStateForgets(st, r) ==
    IF r.ok
    THEN [last_hash |-> r.hash, last_size |-> r.content_size, is_up |-> r.is_up]
    ELSE [last_hash |-> None, last_size |-> -1, is_up |-> FALSE]

CheckState(st, r) ==
    IF r.ok
    THEN [last_hash |-> r.hash, last_size |-> r.content_size, is_up |-> r.is_up]
    ELSE [st EXCEPT !.is_up = FALSE]

(***************************************************************************)
(* Configurations the program is started with.                             *)
(*   n         number of sites in the config file                          *)
(*   interval  each site's interval in seconds                             *)
(*   server    the responses each site's server can give                   *)
(*   log_file  "none": no --log-file; "bad": the path cannot be opened;    *)
(*             "ok": it can                                                *)
(*   lines0    lines in the file at <path> at startup, -1: no such file    *)
(*   faulty    whether file operations may fail during the run             *)
(*   stop      the number of checks of each site after which the process   *)
(*             is stopped, 0: never                                        *)
(***************************************************************************)
Config(n, iv, sv, lf, l0, fy, sp) ==
    [n |-> n, interval |-> iv, server |-> sv, log_file |-> lf,
     lines0 |-> l0, faulty |-> fy, stop |-> sp]

Configs ==
    \* an empty sites list
    {Config(0, [t \in Tasks |-> 1], [t \in Tasks |-> Poor], "ok", -1, FALSE, 0)}
    \* one site, any response, a log file
    \cup {Config(1, [t \in Tasks |-> 1], [t \in Tasks |-> Rich], "ok", l0, FALSE, 0)
              : l0 \in {-1, max_lines}}
    \* one site, file operations that may fail
    \cup {Config(1, [t \in Tasks |-> 1], [t \in Tasks |-> Poor], "ok", l0, TRUE, 0)
              : l0 \in -1..(max_lines + 1)}
    \* two sites sharing the log file
    \cup {Config(2, [t \in Tasks |-> 1], [t \in Tasks |-> Dead], "ok", l0, FALSE,
                 MaxChecks)
              : l0 \in {0, max_lines}}
    \* two sites sharing the log file, file operations that may fail, stopped
    \* after the first check of each site
    \cup {Config(2, [t \in Tasks |-> 1], [t \in Tasks |-> Dead], "ok", max_lines,
                 TRUE, 1)}
    \* console only, one site with interval 0
    \cup {Config(2, [t \in Tasks |-> IF t = 1 THEN iv ELSE 1],
                 [t \in Tasks |-> Poor], lf, 0, FALSE, 0)
              : iv \in {0, 1}, lf \in {"none", "bad"}}
    \* two sites sharing the log file, the first one's server never answers
    \cup {Config(2, [t \in Tasks |-> 1], [t \in Tasks |-> IF t = 1 THEN Hung ELSE Poor],
                 "ok", max_lines, FALSE, 0)}

VARIABLES
    cfg,            \* the configuration (never changes)
    mainpc,         \* main: "start", "exit" (returned Ok), "wait" (awaiting the handles)
    file,           \* Logger.file: NoFile (None) or the inode behind the handle
    base_path,      \* Logger.base_path is Some
    current_lines,  \* Logger.current_lines
    linesLock,      \* holder of the current_lines mutex, 0: free
    fileLock,       \* holder of the file mutex, 0: free
    dir,            \* the directory: name suffix -> inode, NoFile: no such file
    inode,          \* inode -> lines in the file, Free: unused
    pc,             \* each task's position
    state,          \* each task's SiteState
    queue,          \* the lines of the current check still to be logged
    out,            \* the lines of the current check printed so far
    i,              \* rotate_logs: the loop variable
    new_file,       \* rotate_logs: the file opened and not yet stored
    cur,            \* history: the result of the current check
    prev,           \* history: the result of the check before the current one
    prior,          \* history: the result of the last successful check before
                    \* the current one
    checks,         \* history: the checks each task has started, where they are counted
    written,        \* history: lines written to files, up to max_lines + 1
    rotations,      \* history: calls of rotate_logs, up to max_files
    faults,         \* history: file operations that have failed, up to MaxFaults
    lastWriter,     \* history: the task that wrote the latest line to a file, while
                    \* its check is still going on
    before          \* history: the directory when the rotation under way began, as
                    \* long as no other task has been in the file part of log since

vars == <<cfg, mainpc, file, base_path, current_lines, linesLock, fileLock, dir,
          inode, pc, state, queue, out, i, new_file, cur, prev, prior, checks,
          written, rotations, faults, lastWriter, before>>

logger == <<file, base_path, current_lines, linesLock, fileLock>>
fs == <<dir, inode>>
site == <<state, queue, cur, prev, prior>>
rot == <<i, new_file>>
hist == <<checks, written, rotations, faults, lastWriter, before>>

(***************************************************************************)
(* The file system.                                                        *)
(***************************************************************************)
\* Inodes in use: linked in the directory or held open.
Live(d, f, nf) ==
    ({d[k] : k \in Names} \cup {f} \cup {nf[t] : t \in Tasks}) \ {NoFile}

\* Storage of unlinked and closed files is given back.
Collect(ino, d, f, nf) ==
    [x \in Inodes |-> IF x \in Live(d, f, nf) THEN ino[x] ELSE Free]

FreeInode(ino) ==
    CHOOSE x \in Inodes : ino[x] = Free /\ \A y \in Inodes : ino[y] = Free => x <= y

\* fs::remove_file(<path>.k)
RemoveFile(d, k) == [d EXCEPT ![k] = NoFile]

\* A variant of RenameFile: the file is linked under the new name and keeps
\* the old one.
RenameFileKeeps(d, from, to) == [d EXCEPT ![to] = d[from]]

\* fs::rename(<path>.from, <path>.to): replaces <path>.to
RenameFile(d, from, to) == [d EXCEPT ![to] = d[from], ![from] = NoFile]

\* Whether this file operation succeeds: it may fail only in a faulty run.
Outcomes == IF cfg.faulty /\ faults < MaxFaults THEN BOOLEAN ELSE {TRUE}

\* The count of failed file operations after one that went as ok says.
Failed(ok) == IF ok THEN faults ELSE Min(faults + 1, MaxFaults)

ioFailed == faults > 0

(***************************************************************************)
(* Initial state: the process has parsed its arguments and its config.     *)
(***************************************************************************)
Init ==
    /\ cfg \in Configs
    /\ mainpc = "start"
    /\ file = NoFile
    /\ base_path = FALSE
    /\ current_lines = 0
    /\ linesLock = 0
    /\ fileLock = 0
    /\ dir = [k \in Names |-> IF k = 0 /\ cfg.lines0 >= 0 THEN 1 ELSE NoFile]
    /\ inode = [x \in Inodes |-> IF x = 1 /\ cfg.lines0 >= 0 THEN cfg.lines0 ELSE Free]
    /\ pc = [t \in Tasks |-> "absent"]
    /\ state = [t \in Tasks |-> InitialState]
    /\ queue = [t \in Tasks |-> <<>>]
    /\ out = [t \in Tasks |-> <<>>]
    /\ i = [t \in Tasks |-> 0]
    /\ new_file = [t \in Tasks |-> NoFile]
    /\ cur = [t \in Tasks |-> NoResult]
    /\ prev = [t \in Tasks |-> NoResult]
    /\ prior = [t \in Tasks |-> NoResult]
    /\ checks = [t \in Tasks |-> 0]
    /\ written = 0
    /\ rotations = 0
    /\ faults = 0
    /\ lastWriter = 0
    /\ before = NoDir


(***************************************************************************)
(* main                                                                    *)
(***************************************************************************)
\* A variant of MainEmpty: the Logger is built before the sites list is
\* looked at.
MainEmptyAfterLogger ==
    /\ mainpc = "start"
    /\ cfg.n = 0
    /\ mainpc' = "exit"
    /\ LET f == IF dir[0] # NoFile THEN dir[0] ELSE FreeInode(inode)
       IN  /\ file' = f
           /\ base_path' = TRUE
           /\ dir' = [dir EXCEPT ![0] = f]
           /\ inode' = [inode EXCEPT ![f] = IF dir[0] # NoFile THEN @ ELSE 0]
    /\ UNCHANGED <<cfg, current_lines, linesLock, fileLock, pc, site, out, rot, hist>>

\* config.sites.is_empty(): "No sites configured!", return Ok(()).
MainEmpty ==
    /\ mainpc = "start"
    /\ cfg.n = 0
    /\ mainpc' = "exit"
    /\ UNCHANGED <<cfg, logger, fs, pc, site, out, rot, hist>>

\* Logger::new(args.log_file), then one spawned monitor_site per site, then
\* main awaits the handles.
MainRun ==
    /\ mainpc = "start"
    /\ cfg.n > 0
    /\ mainpc' = "wait"
    /\ pc' = [t \in Tasks |-> IF t <= cfg.n THEN "spawned" ELSE "absent"]
    /\ \/ /\ cfg.log_file = "none"
          /\ UNCHANGED <<file, base_path, current_lines, fs, faults>>
       \/ /\ cfg.log_file = "bad"
          /\ faults' = Failed(FALSE)
          /\ UNCHANGED <<file, base_path, current_lines, fs>>
       \/ /\ cfg.log_file = "ok"
          /\ LET f == IF dir[0] # NoFile THEN dir[0] ELSE FreeInode(inode)
                 n == IF dir[0] # NoFile THEN inode[dir[0]] ELSE 0
             IN  /\ file' = f
                 /\ base_path' = TRUE
                 /\ dir' = [dir EXCEPT ![0] = f]
                 /\ inode' = [inode EXCEPT ![f] = n]
                 \* count_lines(&path_buf).unwrap_or(0)
                 /\ \E counted \in (IF n > 0 THEN Outcomes ELSE {TRUE}) :
                        /\ current_lines' = IF counted THEN n ELSE 0
                        /\ faults' = Failed(counted)
    /\ UNCHANGED <<cfg, linesLock, fileLock, site, out, rot, checks, written,
                   rotations, lastWriter, before>>

(***************************************************************************)
(* monitor_site                                                            *)
(***************************************************************************)
\* time::interval(Duration::from_secs(site.interval)) panics on a zero period.
MonitorStart(t) ==
    /\ pc[t] = "spawned"
    /\ pc' = [pc EXCEPT ![t] = IF cfg.interval[t] = 0 THEN "panicked" ELSE "tick"]
    /\ UNCHANGED <<cfg, mainpc, logger, fs, site, out, rot, hist>>

\* interval_timer.tick().await completes and check_site is called.
Tick(t) ==
    /\ pc[t] = "tick"
    /\ cfg.stop = 0 \/ checks[t] < cfg.stop
    /\ checks' = [checks EXCEPT ![t] = IF cfg.stop = 0 THEN @ ELSE @ + 1]
    /\ pc' = [pc EXCEPT ![t] = "http"]
    /\ prev' = [prev EXCEPT ![t] = cur[t]]
    /\ prior' = [prior EXCEPT ![t] = IF cur[t].ok THEN cur[t] ELSE @]
    /\ cur' = [cur EXCEPT ![t] = NoResult]
    /\ out' = [out EXCEPT ![t] = <<>>]
    /\ UNCHANGED <<cfg, mainpc, logger, fs, state, queue, rot, written, rotations,
                   faults, lastWriter, before>>

\* check_site returns; the match arms decide the lines of this check and the
\* new SiteState (both local to the task).
CheckDone(t) ==
    /\ pc[t] = "http"
    /\ \E resp \in cfg.server[t] :
        LET r == check_site(resp)
        IN  /\ cur' = [cur EXCEPT ![t] = r]
            /\ queue' = [queue EXCEPT ![t] = CheckLines(state[t], r)]
            /\ state' = [state EXCEPT ![t] = CheckState(state[t], r)]
    /\ pc' = [pc EXCEPT ![t] = "log"]
    /\ UNCHANGED <<cfg, mainpc, logger, fs, out, prev, prior, rot, hist>>

(***************************************************************************)
(* Logger::log                                                             *)
(***************************************************************************)
\* A variant of LoopTo: monitor_site returns after one check.
LoopExit == "returned"

\* Where monitor_site goes when a check's match arm has ended: the loop leads
\* back to interval_timer.tick().await.
LoopTo == "tick"

\* The position of task t after its log call has returned.
Return(t) ==
    /\ queue' = [queue EXCEPT ![t] = Tail(@)]
    /\ pc' = [pc EXCEPT ![t] = IF Tail(queue[t]) = <<>> THEN LoopTo ELSE "log"]

\* A variant of FileEnabled: log goes on to the file whether there is one or
\* not.
FileEnabledAlways == TRUE

\* if let Some(file) = &self.file
FileEnabled == file # NoFile

\* println!, and the end of the call when there is no file.
LogPrint(t) ==
    /\ pc[t] = "log"
    /\ out' = [out EXCEPT ![t] = Append(@, Head(queue[t]))]
    /\ IF ~FileEnabled
       THEN Return(t)
       ELSE /\ pc' = [pc EXCEPT ![t] = "lock"]
            /\ UNCHANGED queue
    /\ UNCHANGED <<cfg, mainpc, logger, fs, state, cur, prev, prior, rot, hist>>

\* Task t has locked the counter in a log call that has not returned.
Locked(t) ==
    pc[t] \in {"rot_remove", "rot_shift", "rot_base", "rot_open", "rot_swap",
               "rot_reset", "relock", "flock", "write"}

\* No task but t is past the lock of a log call.
Alone(t) == \A u \in Tasks \ {t} : ~Locked(u)

\* Whether the counter calls for a rotation.
RotationNeeded == current_lines >= max_lines

\* A variant of AfterDrop: the guard is kept while rotate_logs runs.
GuardKept(t) == t

\* The holder of the current_lines mutex after drop(current_lines): nobody.
AfterDrop(t) == 0

\* self.current_lines.lock(), the check, and drop(current_lines) before
\* rotate_logs.
LogLock(t) ==
    /\ pc[t] = "lock"
    /\ linesLock = 0
    /\ IF RotationNeeded
       THEN /\ pc' = [pc EXCEPT ![t] = IF base_path THEN "rot_remove" ELSE "relock"]
            /\ rotations' = Min(rotations + 1, max_files)
            /\ before' = IF Alone(t) THEN dir ELSE NoDir
            /\ linesLock' = AfterDrop(t)
       ELSE /\ pc' = [pc EXCEPT ![t] = "flock"]
            /\ linesLock' = t
            /\ before' = IF Alone(t) THEN before ELSE NoDir
            /\ UNCHANGED rotations
    /\ UNCHANGED <<cfg, mainpc, file, base_path, current_lines, fileLock, fs, site,
                   out, rot, checks, written, faults, lastWriter>>

\* current_lines = self.current_lines.lock() after rotate_logs.
LogRelock(t) ==
    /\ pc[t] = "relock"
    /\ linesLock = 0
    /\ linesLock' = t
    /\ pc' = [pc EXCEPT ![t] = "flock"]
    /\ UNCHANGED <<cfg, mainpc, file, base_path, current_lines, fileLock, fs, site,
                   out, rot, hist>>

\* file.lock()
LogFileLock(t) ==
    /\ pc[t] = "flock"
    /\ fileLock = 0
    /\ fileLock' = t
    /\ pc' = [pc EXCEPT ![t] = "write"]
    /\ UNCHANGED <<cfg, mainpc, file, base_path, current_lines, linesLock, fs, site,
                   out, rot, hist>>

\* A variant of GuardsDropped: the task keeps the mutexes after log.
GuardsHeld(t) == t

\* The holder of each mutex when log returns and its guards go out of scope:
\* nobody.
GuardsDropped(t) == 0

\* writeln!(f, ...), the increment, and both guards dropped.
LogWrite(t) ==
    /\ pc[t] = "write"
    /\ \E ok \in Outcomes :
          /\ faults' = Failed(ok)
          /\ IF ok
             THEN /\ inode' = [inode EXCEPT ![file] = @ + 1]
                  /\ current_lines' = current_lines + 1
                  /\ written' = Min(written + 1, max_lines + 1)
             ELSE UNCHANGED <<inode, current_lines, written>>
          /\ lastWriter' = IF Tail(queue[t]) = <<>> /\ (ok \/ lastWriter = t) THEN 0
                           ELSE IF ok THEN t ELSE lastWriter
    /\ before' = NoDir
    /\ linesLock' = GuardsDropped(t)
    /\ fileLock' = GuardsDropped(t)
    /\ Return(t)
    /\ UNCHANGED <<cfg, mainpc, file, base_path, dir, state, out, cur, prev, prior,
                   rot, checks, rotations>>


(***************************************************************************)
(* Logger::rotate_logs, called with no mutex held.                         *)
(***************************************************************************)
\* The suffix of the oldest backup: self.max_files - 1.
Oldest == max_files - 1

\* A variant of ShiftFrom: the loop starts at the oldest backup,
\* (1..=self.max_files - 1).rev().
ShiftFromOldest == max_files - 1

\* The first index of the shift loop, (1..self.max_files - 1).rev().
ShiftFrom == max_files - 2

\* let _ = fs::remove_file(&oldest)
RotRemove(t) ==
    /\ pc[t] = "rot_remove"
    /\ \E ok \in (IF dir[Oldest] # NoFile THEN Outcomes ELSE {TRUE}) :
          /\ dir' = IF ok THEN RemoveFile(dir, Oldest) ELSE dir
          /\ faults' = Failed(ok)
    /\ inode' = Collect(inode, dir', file, new_file)
    /\ i' = [i EXCEPT ![t] = ShiftFrom]
    /\ pc' = [pc EXCEPT ![t] = IF ShiftFrom >= 1 THEN "rot_shift" ELSE "rot_base"]
    /\ UNCHANGED <<cfg, mainpc, logger, site, out, new_file, checks, written,
                   rotations, lastWriter, before>>

\* One pass of the loop: let _ = fs::rename(<path>.i, <path>.{i+1})
RotShift(t) ==
    /\ pc[t] = "rot_shift"
    /\ \E ok \in (IF dir[i[t]] # NoFile THEN Outcomes ELSE {TRUE}) :
          /\ dir' = IF ok /\ dir[i[t]] # NoFile
                    THEN RenameFile(dir, i[t], i[t] + 1)
                    ELSE dir
          /\ faults' = Failed(ok)
    /\ inode' = Collect(inode, dir', file, new_file)
    /\ i' = [i EXCEPT ![t] = @ - 1]
    /\ pc' = [pc EXCEPT ![t] = IF i[t] - 1 >= 1 THEN "rot_shift" ELSE "rot_base"]
    /\ UNCHANGED <<cfg, mainpc, logger, site, out, new_file, checks, written,
                   rotations, lastWriter, before>>

\* let _ = fs::rename(base_path, &first_backup)
RotBase(t) ==
    /\ pc[t] = "rot_base"
    /\ \E ok \in (IF dir[0] # NoFile THEN Outcomes ELSE {TRUE}) :
          /\ dir' = IF ok /\ dir[0] # NoFile THEN RenameFile(dir, 0, 1) ELSE dir
          /\ faults' = Failed(ok)
    /\ inode' = Collect(inode, dir', file, new_file)
    /\ pc' = [pc EXCEPT ![t] = "rot_open"]
    /\ UNCHANGED <<cfg, mainpc, logger, site, out, rot, checks, written,
                   rotations, lastWriter, before>>

\* A variant of OpenFailedTo: the result of the open is unwrapped.
OpenFailedPanics == "panicked"

\* Where rotate_logs goes when the active file cannot be reopened: the if let
\* is skipped and rotate_logs returns to log.
OpenFailedTo == "relock"

\* OpenOptions::new().create(true).append(true).open(base_path): the file at
\* <path> if there is one, else a new empty file.
RotOpen(t) ==
    /\ pc[t] = "rot_open"
    /\ \E ok \in Outcomes :
          IF ok
          THEN LET f == IF dir[0] # NoFile THEN dir[0] ELSE FreeInode(inode)
               IN  /\ new_file' = [new_file EXCEPT ![t] = f]
                   /\ dir' = [dir EXCEPT ![0] = f]
                   /\ inode' = [inode EXCEPT ![f] = IF dir[0] # NoFile THEN @ ELSE 0]
                   /\ pc' = [pc EXCEPT ![t] = "rot_swap"]
                   /\ UNCHANGED faults
          ELSE /\ pc' = [pc EXCEPT ![t] = OpenFailedTo]
               /\ faults' = Failed(FALSE)
               /\ UNCHANGED <<new_file, dir, inode>>
    /\ UNCHANGED <<cfg, mainpc, logger, site, out, i, checks, written,
                   rotations, lastWriter, before>>

\* if let Ok(mut f) = file.lock() { *f = new_file; }: the old handle is closed.
RotSwap(t) ==
    /\ pc[t] = "rot_swap"
    /\ fileLock = 0
    /\ file' = new_file[t]
    /\ new_file' = [new_file EXCEPT ![t] = NoFile]
    /\ inode' = Collect(inode, dir, file', new_file')
    /\ pc' = [pc EXCEPT ![t] = "rot_reset"]
    /\ UNCHANGED <<cfg, mainpc, base_path, current_lines, linesLock, fileLock, dir,
                   site, out, i, hist>>

\* *self.current_lines.lock().unwrap() = 0
RotReset(t) ==
    /\ pc[t] = "rot_reset"
    /\ linesLock = 0
    /\ current_lines' = 0
    /\ pc' = [pc EXCEPT ![t] = "relock"]
    /\ UNCHANGED <<cfg, mainpc, file, base_path, linesLock, fileLock, fs, site,
                   out, rot, hist>>

(***************************************************************************)
(* The program.                                                            *)
(***************************************************************************)
\* A step of Monitor Task t.
TaskStep(t) ==
    \/ MonitorStart(t)
    \/ Tick(t)
    \/ CheckDone(t)
    \/ LogPrint(t)
    \/ LogLock(t)
    \/ RotRemove(t)
    \/ RotShift(t)
    \/ RotBase(t)
    \/ RotOpen(t)
    \/ RotSwap(t)
    \/ RotReset(t)
    \/ LogRelock(t)
    \/ LogFileLock(t)
    \/ LogWrite(t)

Next ==
    \/ MainEmpty
    \/ MainRun
    \/ \E t \in Tasks : TaskStep(t)

Spec == Init /\ [][Next]_vars

\* The runs in which file operations may fail or there is no log file, from
\* a log file that is due for rotation, where there is one.
InitFair ==
    /\ Init
    /\ \/ cfg.n = 0
       \/ cfg.log_file # "ok"
       \/ cfg.faulty /\ cfg.lines0 = max_lines
       \/ cfg.server[1] = Hung

\* The runtime schedules every task that can run, every timer fires, every
\* HTTP call ends with a response or an error, and a task that waits for a
\* mutex which is released again and again gets it.
SpecFair ==
    /\ InitFair
    /\ [][Next]_vars
    /\ \A t \in Tasks : SF_vars(TaskStep(t))

TypeOK ==
    /\ current_lines \in 0..(4 * max_lines)
    /\ \A x \in Inodes : inode[x] \in -1..(4 * max_lines)
    /\ \A t \in Tasks : Len(queue[t]) <= 3


(***************************************************************************)
(* The lines of a check.                                                   *)
(***************************************************************************)
\* Task t has completed a check and logged all its lines.
Done(t) == pc[t] = "tick" /\ cur[t] # NoResult

\* The lines of sequence q that are in set S, in their order.
Only(q, S) == SelectSeq(q, LAMBDA line : line \in S)

StatusChangedLines == {"  status changed: down -> up", "  status changed: up -> down"}

\* What the checks before the current one say the site is: up before the
\* first check, down after a failed check, else what the previous check found.
KnownUp(t) == IF prev[t] = NoResult THEN TRUE ELSE prev[t].ok /\ prev[t].is_up

\* C1 as claimed: a 'status changed' line is emitted on a check exactly when
\* the check is successful and its is_up differs from the is_up of the
\* immediately prior successful check of the site.
C1_StatusChangedVsPriorSuccess ==
    \A t \in Tasks :
        Done(t) =>
            /\ ~cur[t].ok => Only(out[t], StatusChangedLines) = <<>>
            /\ cur[t].ok /\ prior[t].ok =>
                  (Only(out[t], StatusChangedLines) # <<>>
                      <=> cur[t].is_up # prior[t].is_up)

\* C1 as amended: a 'status changed' line is emitted on a check exactly when
\* the check is successful and its is_up differs from what the site was taken
\* to be: up before the first check, down after a failed check, else the
\* is_up of the previous check.  The line names the direction, and there is
\* one at most.
C1_StatusChangedVsPreviousCheck ==
    \A t \in Tasks :
        Done(t) =>
            Only(out[t], StatusChangedLines) =
                IF cur[t].ok /\ cur[t].is_up # KnownUp(t)
                THEN IF cur[t].is_up THEN <<"  status changed: down -> up">>
                                     ELSE <<"  status changed: up -> down">>
                ELSE <<>>

\* A 200 after a failed check that followed a 200: the site is reported to
\* have come up although the prior successful check found it up.
C1_Witness ==
    \E t \in Tasks :
        /\ Done(t) /\ cur[t].ok /\ cur[t].is_up
        /\ prev[t] = ErrResult
        /\ prior[t].ok /\ prior[t].is_up
        /\ out[t][2] = "  status changed: down -> up"


ContentChangedLines == {"  content changed"}

\* C4: the first successful check of a site emits no 'content changed' line,
\* whatever failed checks came before it and whatever its status code is.
C4_NoContentChangedOnFirstSuccess ==
    \A t \in Tasks :
        cur[t].ok /\ ~prior[t].ok =>
            /\ Only(out[t], ContentChangedLines) = <<>>
            /\ Only(queue[t], ContentChangedLines) = <<>>

\* A first successful check that came after a failed one and found a 500.
C4_Witness ==
    \E t \in Tasks :
        /\ Done(t) /\ cur[t].ok /\ ~cur[t].is_up
        /\ ~prior[t].ok /\ prev[t] = ErrResult

\* C5: a successful check after the first successful one emits exactly one
\* 'content changed' line if its fingerprint differs from that of the last
\* successful check before it, and none if it is the same; a failed check
\* emits none and leaves last_hash and last_size as that successful check set
\* them.
C5_ContentChangedVsPriorSuccess ==
    \A t \in Tasks :
        Done(t) =>
            /\ cur[t].ok /\ prior[t].ok =>
                  Only(out[t], ContentChangedLines) =
                      IF cur[t].hash # prior[t].hash
                      THEN <<"  content changed">>
                      ELSE <<>>
            /\ ~cur[t].ok =>
                  /\ Only(out[t], ContentChangedLines) = <<>>
                  /\ state[t].last_hash = prior[t].hash
                  /\ state[t].last_size = prior[t].content_size

\* A changed body seen across a failed check.
C5_Witness ==
    \E t \in Tasks :
        /\ Done(t) /\ cur[t].ok /\ prior[t].ok /\ prev[t] = ErrResult
        /\ cur[t].hash # prior[t].hash
        /\ Only(out[t], ContentChangedLines) = <<"  content changed">>

\* C9: a failed check emits exactly the error status line and the error
\* message line, no 'status changed' line, and leaves is_up false.
C9_FailedCheck ==
    \A t \in Tasks :
        Done(t) /\ ~cur[t].ok =>
            /\ out[t] = <<"status: error", "  error">>
            /\ ~state[t].is_up

\* A failed check of a site that the check before had found up.
C9_Witness ==
    \E t \in Tasks :
        /\ Done(t) /\ ~cur[t].ok
        /\ prev[t].ok /\ prev[t].is_up

\* C10: when the first check of a site is successful with a non-2xx status,
\* its lines are 'status: down' and 'status changed: up -> down'.
C10_FirstCheckDown ==
    \A t \in Tasks :
        Done(t) /\ prev[t] = NoResult /\ cur[t].ok /\ ~cur[t].is_up =>
            out[t] = <<"status: down", "  status changed: up -> down">>

\* A first check that found a 500.
C10_Witness ==
    \E t \in Tasks :
        /\ Done(t) /\ prev[t] = NoResult /\ cur[t].ok /\ ~cur[t].is_up
        /\ ~state[t].is_up


(***************************************************************************)
(* The Logger.                                                             *)
(***************************************************************************)
\* Task t is in rotate_logs.
InRotate(t) ==
    pc[t] \in {"rot_remove", "rot_shift", "rot_base", "rot_open", "rot_swap",
               "rot_reset"}

\* The run started on no file or an empty one, and no file operation failed.
CleanStart == cfg.log_file = "ok" /\ cfg.lines0 <= 0 /\ ~ioFailed

\* C2 as claimed: on a Logger started on an empty file, no rotation starts
\* before max_lines lines are written, exactly one has started when line
\* max_lines + 1 is written, and when that rotation has ended the counter is
\* 0, the file that held the max_lines lines is <path>.1 and <path> is empty.
C2_OneRotationPerMaxLines ==
    CleanStart =>
        /\ written < max_lines => rotations = 0
        /\ written = max_lines => rotations <= 1
        /\ written > max_lines => rotations >= 1
        /\ \A t \in Tasks :
              pc[t] = "relock" /\ rotations = 1 /\ written = max_lines =>
                  /\ current_lines = 0
                  /\ dir[1] = 1 /\ inode[1] = max_lines
                  /\ dir[0] # NoFile /\ inode[dir[0]] = 0 /\ file = dir[0]

\* C3 as claimed: at most one task is in rotate_logs at a time, and while a
\* task is in rotate_logs no other task holds the counter to write a line.
C3_RotationSerialized ==
    \A t, u \in Tasks :
        t # u /\ InRotate(t) => ~InRotate(u) /\ pc[u] \notin {"flock", "write"}

\* C6: only <path>, <path>.1 .. <path>.{max_files - 1} ever exist, so there
\* are at most max_files - 1 backups; and a rotation that runs alone and
\* without a failure has deleted <path>.{max_files - 1} when it starts to
\* shift.
C6_BackupsBounded ==
    /\ \A k \in Names : dir[k] # NoFile => k <= max_files - 1
    /\ Cardinality({k \in Names \ {0} : dir[k] # NoFile}) <= max_files - 1
    /\ \A t \in Tasks :
          cfg.n = 1 /\ ~ioFailed /\ pc[t] = "rot_shift" /\ i[t] = max_files - 2
              => dir[max_files - 1] = NoFile

\* The fourth rotation of a run has deleted the oldest of three backups.
C6_Witness ==
    \E t \in Tasks :
        /\ cfg.n = 1 /\ ~ioFailed /\ rotations = max_files
        /\ pc[t] = "rot_shift" /\ i[t] = max_files - 2
        /\ dir[1] # NoFile /\ dir[2] # NoFile /\ dir[max_files - 1] = NoFile

\* C7 as claimed: when the run started on a file of at most max_lines lines
\* and no file operation failed, the file at <path> has at most max_lines
\* lines.
C7_ActiveFileBounded ==
    cfg.lines0 <= max_lines /\ ~ioFailed /\ dir[0] # NoFile
        => inode[dir[0]] <= max_lines

\* Task t has been spawned for a site with a positive interval.
Running(t) == pc[t] # "absent" /\ cfg.interval[t] >= 1

\* C8: a task of a site with interval >= 1 s, whose HTTP calls end, always
\* comes back to waiting for its next tick, and in a run that is not stopped it starts checks again and
\* again.
C8_TasksNeverEnd ==
    \A t \in Tasks :
        /\ [](Running(t) /\ cfg.server[t] # Hung => <>(pc[t] = "tick"))
        /\ [](Running(t) /\ cfg.stop = 0 => <>(pc[t] = "http"))

\* A task is back at its timer after a failed check, in a run in which a
\* file operation has failed and a rotation was called for.
C8_Witness ==
    \E t \in Tasks :
        /\ Done(t) /\ ~cur[t].ok /\ prev[t] # NoResult
        /\ faults > 0 /\ rotations > 0


(***************************************************************************)
(* Start-up and the console-only Logger.                                   *)
(***************************************************************************)
\* C11: with an empty sites list main returns Ok without spawning a task: no
\* check is made, no line is logged, and the Logger and its file are never
\* created.
C11_EmptySites ==
    cfg.n = 0 =>
        /\ mainpc \in {"start", "exit"}
        /\ \A t \in Tasks :
              pc[t] = "absent" /\ cur[t] = NoResult /\ out[t] = <<>> /\ queue[t] = <<>>
        /\ file = NoFile /\ ~base_path /\ current_lines = 0
        /\ \A k \in Names : dir[k] = NoFile
        /\ \A x \in Inodes : inode[x] = Free
        /\ written = 0 /\ rotations = 0

\* main has returned on an empty sites list.
C11_Witness == cfg.n = 0 /\ mainpc = "exit"

\* Task t is in the file part of a log call and has not come to its write.
BeforeWrite(t) == pc[t] \in {"lock", "relock", "flock"} \/ InRotate(t)

\* C12: in a run in which file operations may fail (the steps of a rotation
\* among them), every log call that has a file comes to its file write, which
\* goes through a handle on an existing file, and returns; no task ends.
C12_RotationFailureTolerated ==
    \A t \in Tasks :
        /\ [](cfg.faulty /\ BeforeWrite(t) => <>(pc[t] = "write"))
        /\ [](cfg.faulty /\ pc[t] = "write" => file # NoFile /\ inode[file] # Free)
        /\ [](cfg.faulty /\ pc[t] = "write" => <>(pc[t] \in {"log", "tick"}))
        /\ [](cfg.faulty => pc[t] # "panicked")

\* The active file could not be reopened by the rotation of this log call
\* (the counter was not reset), and the call has come to its write.
C12_Witness ==
    \E t \in Tasks :
        /\ pc[t] = "write" /\ rotations > 0 /\ faults > 0
        /\ current_lines >= max_lines /\ cfg.lines0 = max_lines

\* C13: when no log file was configured or it could not be opened at
\* startup, every log call ends after printing: no task comes to the file
\* part of log or to rotate_logs, the counter stays 0 and no file is written,
\* created or renamed.
C13_ConsoleOnly ==
    cfg.n > 0 /\ cfg.log_file # "ok" /\ mainpc # "start" =>
        /\ file = NoFile /\ ~base_path /\ current_lines = 0
        /\ \A t \in Tasks : ~BeforeWrite(t) /\ pc[t] # "write"
        /\ rotations = 0 /\ written = 0
        /\ linesLock = 0 /\ fileLock = 0
        /\ \A k \in Names : dir[k] = IF k = 0 /\ cfg.lines0 >= 0 THEN 1 ELSE NoFile
        /\ \A x \in Inodes : inode[x] = IF x = 1 THEN cfg.lines0 ELSE Free

\* A site's second check has been logged to the console after the log file
\* could not be opened.
C13_Witness ==
    \E t \in Tasks :
        /\ cfg.log_file = "bad" /\ Done(t) /\ prev[t] # NoResult
        /\ Len(out[t]) >= 2

(***************************************************************************)
(* The order of a check's lines.                                           *)
(***************************************************************************)
StatusLines == {"status: up", "status: down", "status: error"}

\* C14: a tick starts one check, which has logged nothing while its HTTP call
\* is under way; the first line a check logs is its status line, and it logs
\* one status line only; a successful check logs its status line (up or
\* down), then at most one 'status changed' line, then at most one 'content
\* changed' line, and a failed check logs the error status line first.
C14_OneStatusLineFirst ==
    \A t \in Tasks :
        /\ pc[t] = "http" => cur[t] = NoResult /\ out[t] = <<>> /\ queue[t] = <<>>
        /\ out[t] # <<>> =>
              /\ out[t][1] \in StatusLines
              /\ Len(Only(out[t], StatusLines)) = 1
        /\ Done(t) => out[t] # <<>>
        /\ Done(t) /\ cur[t].ok =>
              /\ out[t][1] = IF cur[t].is_up THEN "status: up" ELSE "status: down"
              /\ out[t] = <<out[t][1]>> \o Only(out[t], StatusChangedLines)
                                        \o Only(out[t], ContentChangedLines)
              /\ Len(Only(out[t], StatusChangedLines)) <= 1
              /\ Len(Only(out[t], ContentChangedLines)) <= 1
        /\ Done(t) /\ ~cur[t].ok => out[t][1] = "status: error"

\* A check that logged all three lines of a successful check.
C14_Witness ==
    \E t \in Tasks :
        /\ Done(t) /\ cur[t].ok /\ Len(out[t]) = 3
        /\ out[t][2] \in StatusChangedLines /\ out[t][3] = "  content changed"

(***************************************************************************)
(* The line counter.                                                       *)
(***************************************************************************)
\* No task is in the file part of a log call.
Quiet == \A t \in Tasks : ~BeforeWrite(t) /\ pc[t] # "write"

\* C15 as claimed: when the Logger has a file, no file operation has failed
\* and no log call is in progress, current_lines is the number of lines in
\* the file at <path> (at startup: the lines the file had then).
C15_CounterMatchesFile ==
    cfg.log_file = "ok" /\ mainpc = "wait" /\ ~ioFailed /\ Quiet =>
        /\ dir[0] # NoFile
        /\ current_lines = inode[dir[0]]

(***************************************************************************)
(* The shift of a rotation.                                                *)
(***************************************************************************)
\* Task t is in a rotation that no other log call has overlapped, and no
\* file operation has failed.
RotatingAlone(t) == before[0] # NoFile /\ ~ioFailed /\ (InRotate(t) \/ pc[t] = "relock")

C17_SilentDownAnnouncedUp ==
    \A t \in Tasks :
        /\ Done(t) /\ ~cur[t].ok => Only(out[t], StatusChangedLines) = <<>>
        /\ Done(t) /\ cur[t].ok /\ prev[t] = ErrResult =>
              Only(out[t], StatusChangedLines) =
                  IF cur[t].is_up THEN <<"  status changed: down -> up">> ELSE <<>>

\* A site found up, then a failed check, then found down: the last check
\* logs no 'status changed' line.
C17_Witness ==
    \E t \in Tasks :
        /\ Done(t) /\ cur[t].ok /\ ~cur[t].is_up /\ prev[t] = ErrResult
        /\ prior[t].ok /\ prior[t].is_up
        /\ out[t][1] = "status: down"
        /\ Only(out[t], StatusChangedLines) = <<>>

(***************************************************************************)
(* The lines of several sites in the file.                                 *)
(***************************************************************************)
\* C18 as claimed: when a task writes an event line of a check to the file
\* (no file operation having failed), the line written to the file last was
\* a line of the same check.
C18_EventLinesAdjacent ==
    \A t \in Tasks :
        ~ioFailed /\ pc[t] = "write" /\ Len(out[t]) >= 2 => lastWriter = t

(***************************************************************************)
(* The two mutexes.                                                        *)
(***************************************************************************)
\* Task t is in the file part of a log call.
InFilePart(t) == BeforeWrite(t) \/ pc[t] = "write"

\* C19: the current_lines mutex is held only by a task that is about to take
\* the file mutex or has it, the file mutex only by a task that holds the
\* current_lines mutex and is at its write; whenever a task is in the file
\* part of log some task can take a step; and every log call returns.
C19_NoDeadlock ==
    /\ \A t \in Tasks :
          /\ [](linesLock = t => pc[t] \in {"flock", "write"})
          /\ [](fileLock = t => pc[t] = "write" /\ linesLock = t)
          /\ [](InFilePart(t) => <>(pc[t] \in {"log", "tick"}))
    /\ []((\E t \in Tasks : InFilePart(t)) => \E t \in Tasks : ENABLED TaskStep(t))

\* A task in rotate_logs waits for the counter while another task holds both
\* mutexes.
C19_Witness ==
    \E t, u \in Tasks :
        /\ t # u /\ pc[t] = "rot_reset"
        /\ pc[u] = "write" /\ linesLock = u /\ fileLock = u

\* Task t waits for its next tick or for its HTTP call.
Suspended(t) == pc[t] \in {"tick", "http"}

\* The HTTP call of task u is under way and will never end.
Hanging(u) == pc[u] = "http" /\ cfg.server[u] = Hung

\* C20: a suspended task holds neither mutex, and while the HTTP call of one
\* site hangs, every other site that waits for a tick comes to write a line
\* to the file and to the end of that check.
C20_NoTaskBlocksAnother ==
    \A t \in Tasks :
        /\ [](Suspended(t) => linesLock # t /\ fileLock # t)
        /\ \A u \in Tasks \ {t} :
              /\ [](Hanging(u) /\ pc[t] = "tick" => <>(pc[t] = "write"))
              /\ [](Hanging(u) /\ pc[t] = "write" => <>Done(t))

\* A site has logged its second check, through a rotation, while the other
\* site's HTTP call hangs.
C20_Witness ==
    \E t, u \in Tasks :
        /\ t # u /\ Hanging(u)
        /\ Done(t) /\ prev[t] # NoResult /\ rotations > 0 /\ written > 0

=============================================================================
